---- MODULE Spec2Model ----
(***************************************************************************)
(* Model of nasdaq_web_scraper.py: the driver (__main__), extract_info and *)
(* write_to_file.                                                          *)
(*                                                                         *)
(* A Python string is a sequence of tokens (each token a TLA+ string), so  *)
(* that strip(), f-string concatenation and substring (entity span) are    *)
(* computed and not assumed.  A file is a sequence of lines, a line a      *)
(* string.  The web site, the recognizer and the file system are the       *)
(* environment: the site is fixed at start, the recognizer's entities and  *)
(* the file system's fault are drawn when the call is made.  The spaCy     *)
(* model en_core_web_sm is taken to be installed (spacy.load returns).     *)
(***************************************************************************)
EXTENDS Integers, Sequences, FiniteSets, TLC

VARIABLES pc, site, file, io, response, ents, info, stdout, log, calls

vars == <<pc, site, file, io, response, ents, info, stdout, log, calls>>

(* ------------------------------ bounds -------------------------------- *)

\* number of elements of a served HTML document
MaxElems == 3
\* number of entities the recognizer reports for one text
MaxEnts == 3

(* ------------------------------ strings ------------------------------- *)

Whitespace == {" ", "\n"}

RECURSIVE lstrip(_)
lstrip(s) == IF s # <<>> /\ Head(s) \in Whitespace THEN lstrip(Tail(s)) ELSE s

RECURSIVE rstrip(_)
rstrip(s) ==
    IF s # <<>> /\ s[Len(s)] \in Whitespace
    THEN rstrip(SubSeq(s, 1, Len(s) - 1))
    ELSE s

\* (mutant) only the leading whitespace goes
strip_left_only(s) == lstrip(s)

\* str.strip()
strip(s) == rstrip(lstrip(s))

\* dict.get(key, default)
get(d, key, default) == IF key \in DOMAIN d THEN d[key] ELSE default

\* the value of a name that is not bound yet (a mapping with no key)
Unbound == <<>>

(* --------------------------- configuration ---------------------------- *)

\* timeout=10 of requests.get (seconds)
timeout == 10

\* {'User-Agent': 'Mozilla/5.0'}
headers == [User_Agent |-> "Mozilla/5.0"]

config ==
    [content_selector |-> "div.body__content",
     metadata |->
        [publication_timestamp |-> "p.jupiter22-c-author-byline__timestamp",
         author |-> "span.jupiter22-c-author-byline__author-no-link"]]

url == "https://www.nasdaq.com/articles/should-investors-buy-the-artificial-intelligence-technology-etf-instead-of-individual-ai"

file_path == "extracted_data.txt"

(* ---------------------------- environment ----------------------------- *)

\* An HTML element: the selector it is matched by, and its text.
Elements ==
    { [css |-> config.content_selector,
       text |-> <<"Acme", " ", "ACME", " ", "Acme", "\n">>],
      [css |-> config.content_selector, text |-> <<"Globex", " ", "Inc">>],
      [css |-> config.metadata.publication_timestamp,
       text |-> <<"\n", " ", "Jan 1, 2024", " ">>],
      [css |-> config.metadata.author, text |-> <<" ", "Jane", " ", "Doe", "\n">>],
      [css |-> config.metadata.author, text |-> <<"Acme", " ">>] }

\* The documents a site may serve: the elements in document order.
Docs == UNION { [1..n -> Elements] : n \in 0..MaxElems }

\* What the GET meets: a response with a status and a body, or a transport
\* fault (the exception requests.get raises).
Sites ==
    { [fault |-> "none", status |-> 200, body |-> d] : d \in Docs }
    \cup { [fault |-> "none", status |-> s, body |-> <<>>] : s \in {204, 404, 500} }
    \cup { [fault |-> f, status |-> 0, body |-> <<>>] :
             f \in {"ReadTimeout", "ConnectTimeout", "ConnectionError", "MissingSchema"} }

\* What the file may hold before the run: nothing, or what a run that found
\* no element and no entity wrote.
PriorFiles ==
    { <<>>,
      << <<"Company Company/Stock Names:">>,
         <<>>, <<"Publication Time:">>, <<"- ", "publication_timestamp", " not available">>,
         <<>>, <<"Author:">>, <<"- ", "author", " not available">>,
         <<>>, <<"Topics:">>, <<"- ", "Not Available">> >> }

(* ----------------------------- exceptions ----------------------------- *)

\* The classes an exception is an instance of (requests.exceptions and
\* the builtins): isinstance(exc, cls) is cls \in Bases(exc).
Bases(exc) ==
    CASE exc = "HTTPError" ->
            {"HTTPError", "RequestException", "IOError", "Exception"}
      [] exc = "ReadTimeout" ->
            {"ReadTimeout", "Timeout", "RequestException", "IOError", "Exception"}
      [] exc = "ConnectTimeout" ->
            {"ConnectTimeout", "ConnectionError", "Timeout", "RequestException",
             "IOError", "Exception"}
      [] exc = "ConnectionError" ->
            {"ConnectionError", "RequestException", "IOError", "Exception"}
      [] exc = "MissingSchema" ->
            {"MissingSchema", "RequestException", "ValueError", "IOError", "Exception"}
      [] exc = "PermissionError" -> {"PermissionError", "IOError", "Exception"}
      [] exc = "OSError" -> {"IOError", "Exception"}
      [] exc = "UnicodeEncodeError" ->
            {"UnicodeEncodeError", "ValueError", "Exception"}
      [] OTHER -> {}

\* (mutant) only a server error raises
raise_for_status_5xx(status) == 500 <= status /\ status < 600

\* response.raise_for_status(): HTTPError for a 4xx or 5xx status
raise_for_status(status) == 400 <= status /\ status < 600

\* The exception the try block of extract_info ends with ("none": no
\* exception, the response is bound).
TryFetch(s) ==
    IF s.fault # "none" THEN s.fault
    ELSE IF raise_for_status(s.status) THEN "HTTPError"
    ELSE "none"

\* The except clauses of extract_info, in order: class caught, message prefix.
Handlers ==
    << [cls |-> "HTTPError", prefix |-> "HTTP error occurred: "],
       [cls |-> "Timeout", prefix |-> "Timeout error: "],
       [cls |-> "ConnectionError", prefix |-> "Connection error: "],
       [cls |-> "Exception", prefix |-> "An error occurred: "] >>

\* The first except clause that catches exc (0: none does).
Handler(exc) ==
    IF \E i \in 1..Len(Handlers) : Handlers[i].cls \in Bases(exc)
    THEN CHOOSE i \in 1..Len(Handlers) :
            /\ Handlers[i].cls \in Bases(exc)
            /\ \A j \in 1..(i - 1) : Handlers[j].cls \notin Bases(exc)
    ELSE 0

\* f"<prefix>{err}"
ErrorMessage(exc) == <<Handlers[Handler(exc)].prefix, exc>>

(* ----------------------------- extraction ----------------------------- *)

\* (mutant) the last match is taken
select_last(soup, selector) ==
    IF \E i \in 1..Len(soup) : soup[i].css = selector
    THEN LET i == CHOOSE k \in 1..Len(soup) :
                    /\ soup[k].css = selector
                    /\ \A j \in (k + 1)..Len(soup) : soup[j].css # selector
         IN <<soup[i]>>
    ELSE <<>>

\* soup.select_one(selector): the first element the selector matches, as a
\* sequence of one element, or the empty sequence (None).
select_one(soup, selector) ==
    IF \E i \in 1..Len(soup) : soup[i].css = selector
    THEN LET i == CHOOSE k \in 1..Len(soup) :
                    /\ soup[k].css = selector
                    /\ \A j \in 1..(k - 1) : soup[j].css # selector
         IN <<soup[i]>>
    ELSE <<>>

\* line 77
article_content(soup) ==
    IF select_one(soup, config.content_selector) # <<>>
    THEN select_one(soup, config.content_selector)[1].text
    ELSE <<"Content not available">>

\* lines 78-81
metadata(soup) ==
    [key \in DOMAIN config.metadata |->
        LET element == select_one(soup, config.metadata[key])
        IN IF element # <<>> THEN strip(element[1].text)
           ELSE <<key, " not available">>]

Labels == {"ORG", "PERSON"}

\* The entity spans a recognizer may report over a text: spans of tokens
\* that begin and end on a word, in order, not overlapping, each labelled.
Spans(text) ==
    { [start |-> a, end |-> b, label_ |-> l] :
        a \in {i \in 1..Len(text) : text[i] \notin Whitespace},
        b \in {i \in 1..Len(text) : text[i] \notin Whitespace},
        l \in Labels }

\* doc.ents of nlp(text), whatever the model: any such sequence
DocEnts(text) ==
    { es \in UNION { [1..n -> Spans(text)] : n \in 0..MaxEnts } :
        /\ \A i \in 1..Len(es) : es[i].start <= es[i].end
        /\ \A i \in 1..(Len(es) - 1) : es[i].end < es[i + 1].start }

\* ent.text
EntText(text, ent) == SubSeq(text, ent.start, ent.end)

\* (mutant) the label is not looked at
company_names_any_label(text, es) ==
    [i \in 1..Len(es) |-> EntText(text, es[i])]

\* line 83
company_names(text, es) ==
    [i \in 1..Len(SelectSeq(es, LAMBDA e : e.label_ = "ORG")) |->
        EntText(text, SelectSeq(es, LAMBDA e : e.label_ = "ORG")[i])]

\* set(list(xs))
set(xs) == { xs[i] : i \in 1..Len(xs) }

(* ------------------------------- writer ------------------------------- *)

\* (mutant) mode 'a': what the file held stays
open_a(old) == old

\* open(file_path, 'w'): what the file holds once opened
open_w(old) == <<>>

\* The orders in which a set may be iterated.
Orders(S) ==
    { o \in [1..Cardinality(S) -> S] : \A x \in S : \E i \in DOMAIN o : o[i] = x }

\* The lines write_to_file writes (lines 33-41), the names in order o.
Layout(data, o) ==
    << <<"Company Company/Stock Names:">> >>
    \o [i \in 1..Len(o) |-> <<"- ">> \o o[i]]
    \o << <<>>, <<"Publication Time:">>,
          <<"- ">> \o get(data.metadata, "publication_timestamp", <<"Not Available">>),
          <<>>, <<"Author:">>,
          <<"- ">> \o get(data.metadata, "author", <<"Not Available">>),
          <<>>, <<"Topics:">>,
          <<"- ">> \o get(data.metadata, "topics", <<"Not Available">>) >>

\* What may happen to the write: nothing, the open is refused, a write fails
\* (the lines before it are kept), or a name or value has a character the
\* file's encoding lacks.
IOFaults == {"none", "PermissionError", "OSError", "UnicodeEncodeError"}

\* (mutant) the clause names a narrower class
WriteCaughtNarrow(exc) == "FileNotFoundError" \in Bases(exc)

\* except IOError (line 42)
WriteCaught(exc) == "IOError" \in Bases(exc)

(* ------------------------------- actions ------------------------------ *)

Init ==
    /\ pc = "extract_info"
    /\ site \in Sites
    /\ file \in PriorFiles
    /\ io = "idle"
    /\ response = Unbound
    /\ ents = <<>>
    /\ info = Unbound
    /\ stdout = <<>>
    /\ log = <<>>
    /\ calls = [get |-> 0, parse |-> 0, select |-> 0, nlp |-> 0, write |-> 0]

\* lines 101, 57-59: the call, the informational log entry, spacy.load
ExtractInfoStart ==
    /\ pc = "extract_info"
    /\ log' = Append(log, [level |-> "INFO", msg |-> <<"Fetching starts">>])
    /\ pc' = "get"
    /\ UNCHANGED <<site, file, io, response, ents, info, stdout, calls>>

\* (mutant) a failed GET is tried once more before the handler runs
ExtractInfoGetRetry ==
    /\ pc = "get"
    /\ LET exc == TryFetch(site) IN
         IF exc = "none"
         THEN /\ calls' = [calls EXCEPT !.get = @ + 1]
              /\ response' = [status |-> site.status, text |-> site.body,
                           request |-> [url |-> url, timeout |-> timeout,
                                        headers |-> headers]]
              /\ pc' = "parse"
              /\ UNCHANGED <<log, info>>
         ELSE /\ calls' = [calls EXCEPT !.get = @ + 2]
              /\ log' = Append(log, [level |-> "ERROR", msg |-> ErrorMessage(exc)])
              /\ info' = [error |-> ErrorMessage(exc)]
              /\ pc' = "print_info"
              /\ UNCHANGED response
    /\ UNCHANGED <<site, file, io, ents, stdout>>

\* lines 60-74: the GET, raise_for_status and the except clauses
ExtractInfoGet ==
    /\ pc = "get"
    /\ calls' = [calls EXCEPT !.get = @ + 1]
    /\ LET exc == TryFetch(site) IN
         IF exc = "none"
         THEN /\ response' = [status |-> site.status, text |-> site.body,
                           request |-> [url |-> url, timeout |-> timeout,
                                        headers |-> headers]]
              /\ pc' = "parse"
              /\ UNCHANGED <<log, info>>
         ELSE /\ log' = Append(log, [level |-> "ERROR", msg |-> ErrorMessage(exc)])
              /\ info' = [error |-> ErrorMessage(exc)]
              /\ pc' = "print_info"
              /\ UNCHANGED response
    /\ UNCHANGED <<site, file, io, ents, stdout>>

\* lines 76-88: parse, select, recognize, return
ExtractInfoParse ==
    /\ pc = "parse"
    /\ LET soup == response.text
           content == article_content(soup)
       IN \E es \in DocEnts(content) :
            /\ ents' = es
            /\ info' = [content |-> content,
                        metadata |-> metadata(soup),
                        company_names |-> set(company_names(content, es))]
    /\ calls' = [calls EXCEPT !.parse = @ + 1,
                              !.select = @ + 1 + Cardinality(DOMAIN config.metadata),
                              !.nlp = @ + 1]
    /\ pc' = "print_info"
    /\ UNCHANGED <<site, file, io, response, stdout, log>>

\* line 102
PrintInfo ==
    /\ pc = "print_info"
    /\ stdout' = Append(stdout, [repr |-> info])
    /\ pc' = "guard"
    /\ UNCHANGED <<site, file, io, response, ents, info, log, calls>>

\* (mutant) the branch is taken without looking at the result
GuardAlwaysWrites ==
    /\ pc = "guard"
    /\ pc' = "write"
    /\ UNCHANGED <<site, file, io, response, ents, info, stdout, log, calls>>

\* lines 103-108, 111
Guard ==
    /\ pc = "guard"
    /\ pc' = IF "error" \notin DOMAIN info THEN "write" ELSE "print_error"
    /\ UNCHANGED <<site, file, io, response, ents, info, stdout, log, calls>>

\* lines 109, 31-43: write_to_file(info, file_path)
WriteToFile ==
    /\ pc = "write"
    /\ calls' = [calls EXCEPT !.write = @ + 1]
    /\ \E o \in Orders(info.company_names), fault \in IOFaults :
         LET lines == Layout(info, o) IN
           /\ io' = fault
           /\ \/ /\ fault = "none"
                 /\ file' = open_w(file) \o lines
              \/ /\ fault = "PermissionError"
                 /\ file' = file
              \/ /\ fault = "OSError"
                 /\ \E k \in 0..(Len(lines) - 1) :
                       file' = open_w(file) \o SubSeq(lines, 1, k)
              \/ /\ fault = "UnicodeEncodeError"
                 /\ \E k \in 1..(Len(lines) - 1) :
                       /\ lines[k + 1] # <<>>
                       /\ lines[k + 1][1] = "- "
                       /\ file' = open_w(file) \o SubSeq(lines, 1, k)
           /\ IF fault = "none"
              THEN /\ pc' = "print_success"
                   /\ UNCHANGED stdout
              ELSE IF WriteCaught(fault)
              THEN /\ stdout' = Append(stdout, [str |-> <<"Error writing to file: ", fault>>])
                   /\ pc' = "print_success"
              ELSE /\ pc' = "crashed"
                   /\ UNCHANGED stdout
    /\ UNCHANGED <<site, response, ents, info, log>>

\* line 110
PrintSuccess ==
    /\ pc = "print_success"
    /\ stdout' = Append(stdout, [str |-> <<"Data successfully written to ", file_path>>])
    /\ pc' = "done"
    /\ UNCHANGED <<site, file, io, response, ents, info, log, calls>>

\* line 112
PrintError ==
    /\ pc = "print_error"
    /\ stdout' = Append(stdout, [str |-> info.error])
    /\ pc' = "done"
    /\ UNCHANGED <<site, file, io, response, ents, info, log, calls>>

Next ==
    \/ ExtractInfoStart
    \/ ExtractInfoGet
    \/ ExtractInfoParse
    \/ PrintInfo
    \/ Guard
    \/ WriteToFile
    \/ PrintSuccess
    \/ PrintError

Spec == Init /\ [][Next]_vars

(* ------------------------------- claims ------------------------------- *)

\* extract_info has returned
Returned == DOMAIN info # {}

ErrorShaped == "error" \in DOMAIN info

SuccessShaped == Returned /\ ~ErrorShaped

\* the GET raised, or the response's status is a client or server error
FetchFails == site.fault # "none" \/ site.status \in 400..599

\* no step of extract_info after the fetch has run
NoLaterStep ==
    /\ calls.parse = 0 /\ calls.select = 0 /\ calls.nlp = 0
    /\ response = Unbound /\ ents = <<>>
    /\ pc # "parse"

\* C1 as stated: when extract_info has returned from a fetch that met a
\* transport fault or ANY non-200 response, the result has the key "error" and
\* none of content, metadata, company_names, and nothing was parsed, selected
\* or recognized.
C1_AnyNon200IsError ==
    (Returned /\ (site.fault # "none" \/ site.status # 200))
        => (DOMAIN info = {"error"} /\ NoLaterStep)

\* C1 amended: once the GET is done, a fetch that raised (timeout, connection
\* failure, any other exception) or that raise_for_status rejects (status
\* 4xx/5xx) has returned a mapping whose only key is "error", carrying the
\* handler's message, and nothing was parsed, selected or recognized.
C1_FailedFetchReturnsError ==
    (calls.get > 0 /\ FetchFails)
        => /\ DOMAIN info = {"error"}
           /\ Len(info.error) = 2
           /\ info.error[1] \in {"HTTP error occurred: ", "Timeout error: ",
                                 "Connection error: ", "An error occurred: "}
           /\ NoLaterStep

C1_Witness ==
    /\ pc = "done"
    /\ site.fault = "none" /\ site.status = 404
    /\ info = [error |-> <<"HTTP error occurred: ", "HTTPError">>]

\* the driver's two closing messages
SuccessMessage == [str |-> <<"Data successfully written to ", file_path>>]

ErrorPrinted == [str |-> info.error]

\* write_to_file is called only with a success-shaped result, and never in a
\* run whose result is error-shaped
WriteOnlyAfterSuccess ==
    /\ (calls.write > 0 \/ pc \in {"write", "print_success"}) => SuccessShaped
    /\ ErrorShaped => (calls.write = 0 /\ io = "idle")

\* no step of a run whose result is error-shaped changes the file
ErrorRunKeepsFile == ErrorShaped' => file' = file

\* C2 as stated: write_to_file runs only after a result without "error"; in a
\* run with an error-shaped result it never runs, the file is left as it was,
\* and the error message is all that the driver has printed at the end.
C2_OnlyErrorMessagePrinted ==
    /\ [](WriteOnlyAfterSuccess
          /\ ((pc = "done" /\ ErrorShaped) => stdout = <<ErrorPrinted>>))
    /\ [][ErrorRunKeepsFile]_vars

\* C2 amended: write_to_file runs only after a result without "error"; in a
\* run with an error-shaped result it never runs, the file is left as it was,
\* and the driver prints the result mapping (line 102) and then the error
\* message, and never the success message.
C2_GuardedWrite ==
    /\ [](WriteOnlyAfterSuccess
          /\ ((pc = "done" /\ ErrorShaped)
                => stdout = <<[repr |-> info], ErrorPrinted>>))
    /\ [][ErrorRunKeepsFile]_vars

C2_Witness ==
    /\ pc = "done"
    /\ site.fault = "ReadTimeout"
    /\ file = CHOOSE f \in PriorFiles : f # <<>>
    /\ stdout = <<[repr |-> [error |-> <<"Timeout error: ", "ReadTimeout">>]],
                  [str |-> <<"Timeout error: ", "ReadTimeout">>]>>

\* the write met an I/O failure: the open was refused or a write failed
IOFailure == io \in {"PermissionError", "OSError"}

Diagnostic == [str |-> <<"Error writing to file: ", io>>]

Served == site.body

\* the places of the elements of the served document that selector matches
Matching(selector) == { i \in 1..Len(Served) : Served[i].css = selector }

\* t is raw without its leading and trailing whitespace
IsTrimOf(t, raw) ==
    \E a \in 0..Len(raw) : \E b \in a..Len(raw) :
        /\ t = SubSeq(raw, a + 1, b)
        /\ \A i \in 1..a : raw[i] \in Whitespace
        /\ \A i \in (b + 1)..Len(raw) : raw[i] \in Whitespace
        /\ t # <<>> => (t[1] \notin Whitespace /\ t[Len(t)] \notin Whitespace)

\* C4: in a success result, content is "Content not available" when no
\* element of the document matches the content selector, and else the text,
\* as it stands, of the first element that does.
C4_ContentOrPlaceholder ==
    SuccessShaped =>
        LET M == Matching(config.content_selector) IN
          /\ M = {} => info.content = <<"Content not available">>
          /\ \A i \in M : (\A j \in M : i <= j) => info.content = Served[i].text

C4_Witness ==
    /\ SuccessShaped
    /\ Cardinality(Matching(config.content_selector)) = 2
    /\ Served[1].css = config.content_selector
    /\ Served[2].css = config.content_selector
    /\ Served[1].text # Served[2].text
    /\ info.content = Served[1].text
    /\ info.content[Len(info.content)] \in Whitespace

\* C5: in a success result, metadata has the configured field names as its
\* keys, and each field is the trimmed text of the first element its selector
\* matches, or "<field> not available" when none matches.
C5_MetadataOrPlaceholder ==
    SuccessShaped =>
        /\ DOMAIN info.metadata = {"publication_timestamp", "author"}
        /\ \A key \in {"publication_timestamp", "author"} :
             LET M == Matching(config.metadata[key]) IN
               /\ M = {} => info.metadata[key] = <<key, " not available">>
               /\ \A i \in M : (\A j \in M : i <= j)
                     => IsTrimOf(info.metadata[key], Served[i].text)

C5_Witness ==
    /\ SuccessShaped
    /\ Matching(config.metadata.publication_timestamp) = {}
    /\ info.metadata.publication_timestamp = <<"publication_timestamp", " not available">>
    /\ Cardinality(Matching(config.metadata.author)) = 2
    /\ info.metadata.author = <<"Jane", " ", "Doe">>

\* the places of the recognized entities labelled ORG
OrgEnts == { i \in 1..Len(ents) : ents[i].label_ = "ORG" }

\* C6: in a success result, company_names is exactly the set of the texts of
\* the entities labelled ORG that were recognized in the content: one entry
\* per distinct text however often it occurs, none for another label, and
\* texts that differ in case are distinct entries.
C6_DistinctOrgTexts ==
    SuccessShaped =>
        /\ \A i \in OrgEnts :
             SubSeq(info.content, ents[i].start, ents[i].end) \in info.company_names
        /\ \A name \in info.company_names :
             \E i \in OrgEnts :
                name = SubSeq(info.content, ents[i].start, ents[i].end)
        /\ Cardinality(info.company_names) <= Cardinality(OrgEnts)

C6_Witness ==
    /\ SuccessShaped
    /\ Len(ents) = 3
    /\ OrgEnts = {1, 2, 3}
    /\ info.company_names = {<<"Acme">>, <<"ACME">>}

\* write_to_file wrote every line and closed the file
Written == io = "none"

NameLine(name) == <<"- ">> \o name

\* the places of the file, among S, that hold the line
Places(line, S) == { i \in S : i <= Len(file) /\ file[i] = line }

\* the file's lines after the names, for the result's metadata
SectionsFollow(n) ==
    /\ Len(file) = n + 10
    /\ file[n + 2] = <<>>
    /\ file[n + 3] = <<"Publication Time:">>
    /\ file[n + 4] = <<"- ">> \o info.metadata.publication_timestamp
    /\ file[n + 5] = <<>>
    /\ file[n + 6] = <<"Author:">>
    /\ file[n + 7] = <<"- ">> \o info.metadata.author
    /\ file[n + 8] = <<>>
    /\ file[n + 9] = <<"Topics:">>
    /\ file[n + 10] = <<"- ", "Not Available">>

\* C7 as stated: after a successful write the file holds exactly one
\* "- <name>" line for each distinct company name, all of them between the
\* names header and the "Publication Time:" header, and holds nothing but the
\* layout of the result, whatever it held before.
C7_OneNameLineInFile ==
    Written =>
        LET n == Cardinality(info.company_names) IN
          /\ file[1] = <<"Company Company/Stock Names:">>
          /\ \A name \in info.company_names :
               /\ Cardinality(Places(NameLine(name), 1..Len(file))) = 1
               /\ Places(NameLine(name), 1..Len(file)) \subseteq 2..(n + 1)
          /\ SectionsFollow(n)

\* C7 amended: after a successful write the lines between the names header
\* and the "Publication Time:" header hold exactly one "- <name>" line for
\* each distinct company name (a metadata value equal to a name is a further
\* such line, in its own section), and the file holds nothing but the layout
\* of the result, whatever it held before.
C7_OneNameLineInSection ==
    Written =>
        LET n == Cardinality(info.company_names) IN
          /\ file[1] = <<"Company Company/Stock Names:">>
          /\ \A name \in info.company_names :
               Cardinality(Places(NameLine(name), 2..(n + 1))) = 1
          /\ Places(<<"Publication Time:">>, 1..(n + 2)) = {}
          /\ SectionsFollow(n)

C7_Witness ==
    /\ Written
    /\ info.company_names = {<<"Acme">>, <<"ACME">>}
    /\ Len(ents) = 3 /\ OrgEnts = {1, 2, 3}
    /\ file[2] = <<"- ", "ACME">> /\ file[3] = <<"- ", "Acme">>
    /\ info.metadata.author = <<"Acme">>
    /\ Len(file) = 12

\* the line under a section's header
SectionLine(header) ==
    file[(CHOOSE i \in 1..Len(file) : file[i] = <<header>>) + 1]

\* the section's line is the text extracted for the field or "Not Available"
ExtractedOrNotAvailable(header, key) ==
    LET M == IF key \in DOMAIN config.metadata
             THEN Matching(config.metadata[key]) ELSE {}
    IN /\ M = {} => SectionLine(header) = <<"- ", "Not Available">>
       /\ \A i \in M : (\A j \in M : i <= j)
             => /\ Head(SectionLine(header)) = "- "
                /\ IsTrimOf(Tail(SectionLine(header)), Served[i].text)

\* C8: in the file a full run has written, the Publication Time, Author and
\* Topics sections each hold the extracted value, or "- Not Available" when
\* the field's selector matched no element (or the field is not configured).
C8_MissingFieldIsNotAvailable ==
    (pc = "done" /\ Written) =>
        /\ ExtractedOrNotAvailable("Publication Time:", "publication_timestamp")
        /\ ExtractedOrNotAvailable("Author:", "author")
        /\ ExtractedOrNotAvailable("Topics:", "topics")

\* the number of entries of the log at the level
Entries(level) == Cardinality({ i \in 1..Len(log) : log[i].level = level })

\* C9: a call of extract_info issues one GET and no more, whatever the
\* outcome; the informational entry is logged before the request; a failed
\* fetch logs one error entry and a successful one none.
C9_OneGetOneErrorEntry ==
    /\ calls.get <= 1
    /\ pc \notin {"extract_info", "get"} => calls.get = 1
    /\ pc = "get" => (calls.get = 0 /\ log = <<[level |-> "INFO", msg |-> <<"Fetching starts">>]>>)
    /\ calls.get = 1 => (log # <<>> /\ log[1].level = "INFO")
    /\ Entries("INFO") <= 1
    /\ Entries("ERROR") = IF calls.get > 0 /\ FetchFails THEN 1 ELSE 0
    /\ Len(log) = Entries("INFO") + Entries("ERROR")

C9_Witness ==
    /\ pc = "done"
    /\ site.fault = "ConnectTimeout"
    /\ calls.get = 1
    /\ log = <<[level |-> "INFO", msg |-> <<"Fetching starts">>],
               [level |-> "ERROR", msg |-> <<"Timeout error: ", "ConnectTimeout">>]>>

\* C10: when the driver has printed the success message, write_to_file met
\* no I/O failure and the file holds the whole layout of the result.
C10_SuccessMessageMeansWritten ==
    (\E i \in 1..Len(stdout) : stdout[i] = SuccessMessage) =>
        /\ ~IOFailure
        /\ file[1] = <<"Company Company/Stock Names:">>
        /\ SectionsFollow(Cardinality(info.company_names))

====
